---- MODULE Spec2Model ----
(***************************************************************************)
(* The per-company decision pipeline of fast_processor.py                  *)
(* (process_companies_fast), with the collaborators it calls:              *)
(* scrape_company_pages (website_scraper.py), classify_relevance_and_      *)
(* contact and analyze_team_members (gemini_classifier.py).                *)
(*                                                                         *)
(* Python values are modelled as follows: None is the string "None", the   *)
(* float NaN that pandas.read_csv puts in a blank cell is the string       *)
(* "NaN", other strings stand for themselves, a dict is a record or a      *)
(* function over its keys.  A confidence c in [0,1] is the integer         *)
(* c * 100000.                                                             *)
(***************************************************************************)
EXTENDS Integers, Sequences, FiniteSets, TLC

\* ------------------------------------------------------------------ bounds
\* Largest number of rows in the batch slice df.iloc[start_from:end_index].
MaxBatch == 2

\* ------------------------------------------------------- program constants
\* 0.8, the relevance confidence threshold, in units of 1/100000.
IrrelevantConfidence == 80000
\* Team size below which a company is disqualified.
MinTeamSize == 5
\* Team size from which the owner is Ellinor.
EllinorTeamSize == 16
\* Team size from which the owner is Matt.
MattTeamSize == 100
\* Number of processed companies between two progress checkpoints.
CheckpointEvery == 10
\* Default of company.get('Number of Employees', 11).
DefaultEmployees == 11

\* ------------------------------------------------------------ Python values
None == "None"
NaN == "NaN"

\* bool(v) of a scalar cell: None and '' are falsy, NaN and any other
\* string are truthy.
Truthy(v) == v \notin {None, ""}

\* A scraped page is None or a (non-empty, hence truthy) dict with a text.
NonePage == [kind |-> "None"]
Page(t) == [kind |-> "page", text |-> t]
PageTruthy(p) == p.kind = "page"
\* scraping_results[k]['text'] if scraping_results.get(k) else ''
TextOf(p) == IF PageTruthy(p) THEN p.text ELSE ""

\* A name not yet bound in the current iteration of the loop.
Unset == [kind |-> "unset"]

\* --------------------------------------------------------------- input rows
hubspot_columns ==
    {"Record ID", "Company name", "Type", "Sector", "Company Domain Name",
     "Number of Employees", "City", "Country", "Company owner", "Create Date",
     "Website URL", "Phone Number", "Last Activity Date", "Country/Region",
     "Industry", "Lifecycle Stage", "Street Address"}

\* The column sets a CSV file is read with: the full export, or an export
\* without the Website URL column.
ColumnSets == {hubspot_columns, hubspot_columns \ {"Website URL"}}

\* A cell of the Website URL column: blank (NaN after read_csv) or a URL.
WebsiteCells == {NaN, "acme.example"}
\* A cell of the Company owner column: blank or a name.
OwnerCells == {NaN, "Anna"}

\* The row at position i of a frame with the columns cols.
Row(cols, i, web, own) ==
    [k \in cols |->
        CASE k = "Record ID" -> i
          [] k = "Website URL" -> web
          [] k = "Company owner" -> own
          [] k = "Number of Employees" -> 7
          [] k = "Phone Number" -> "p0"
          [] k = "Street Address" -> "a0"
          [] k = "Lifecycle Stage" -> "lead"
          [] k = "Sector" -> "s0"
          [] k = "Type" -> "t0"
          [] OTHER -> "x"]

InputRows(cols, i) ==
    {Row(cols, i, web, own) : web \in WebsiteCells, own \in OwnerCells}

\* company.get(key, default) on a row: the default only when the frame has
\* no such column.
Get(c, k, d) == IF k \in DOMAIN c THEN c[k] ELSE d

\* The base result dict, "all original data".
BaseResult(c) ==
    [k \in hubspot_columns |->
        CASE k = "Company name" -> Get(c, k, "Unknown")
          [] k = "Website URL" -> Get(c, k, "")
          [] k = "Number of Employees" -> Get(c, k, DefaultEmployees)
          [] OTHER -> Get(c, k, None)]

\* result.get(key, default) on the result dict.
DictGet(r, k, d) == IF k \in DOMAIN r THEN r[k] ELSE d

\* The disqualification update without its Sector entry.
DisqualifyWithoutSector(r) ==
    [r EXCEPT !["Lifecycle Stage"] = "other",
              !["Company owner"] = "no owner",
              !["Type"] = "other"]

\* result.update({... the four disqualification fields ...})
Disqualify(r) ==
    [r EXCEPT !["Lifecycle Stage"] = "other",
              !["Company owner"] = "no owner",
              !["Sector"] = "n/a",
              !["Type"] = "other"]

\* results.append(result) of one dict made before the loop and refilled for
\* each row: every entry of the list is that dict.
AppendResultShared(rs, r) == Append([i \in 1..Len(rs) |-> r], r)

\* results.append(result)
AppendResult(rs, r) == Append(rs, r)

\* if not website_url
NoWebsite(r) == ~Truthy(r["Website URL"])

VARIABLES
    pc,                 \* position of process_companies_fast
    df_columns,         \* columns of the frame read from the CSV file
    actual_batch_size,  \* number of rows in the batch slice
    pos,                \* number of rows the for loop has taken
    company,            \* the current row
    processed_count,
    result,             \* the result dict of the current row
    scraping_results,
    relevance_analysis,
    team_analysis,
    owner,
    results,
    checkpoints,        \* the progress checkpoint files written
    summary,            \* the statistics of the final summary
    calls,              \* per row: collaborator calls made for it
    outcomes,           \* per appended record: its disposition and row
    frame               \* a collaborator function called on its own: its
                        \* arguments, its position, what it has done so far

\* The names of process_companies_fast.
loop_vars == <<pc, df_columns, actual_batch_size, pos, company,
               processed_count, result, scraping_results, relevance_analysis,
               team_analysis, owner, results, checkpoints, summary, calls,
               outcomes>>

vars == <<pc, df_columns, actual_batch_size, pos, company, processed_count,
          result, scraping_results, relevance_analysis, team_analysis, owner,
          results, checkpoints, summary, calls, outcomes, frame>>

NoCalls == [scrape |-> 0, classify |-> 0, analyze |-> 0]

\* The disposition of a record that is appended now for row pos.
Outcome(reason, p, c) == [reason |-> reason, row |-> p, company |-> c]

\* The state before the first row, but for the frame read.
BeforeLoop ==
    /\ pc = "loop"
    /\ pos = 0
    /\ company = Unset
    /\ processed_count = 0
    /\ result = Unset
    /\ scraping_results = Unset
    /\ relevance_analysis = Unset
    /\ team_analysis = Unset
    /\ owner = "unset"
    /\ results = <<>>
    /\ checkpoints = <<>>
    /\ summary = Unset
    /\ calls = <<>>
    /\ outcomes = <<>>

Init ==
    /\ df_columns \in ColumnSets
    /\ actual_batch_size \in 0..MaxBatch
    /\ BeforeLoop
    /\ frame = Unset

\* processed_count with the + 1 left out.
ProcessedCountFromZero(rs) == Len(rs)

\* processed_count = len(results) + 1
ProcessedCount(rs) == Len(rs) + 1

\* Where control goes after the no-website exit (continue).
AfterNoWebsite == "loop"

\* for idx, company in batch_companies.iterrows(): the next row, its base
\* result and the no-website exit.
StartRow ==
    /\ pc = "loop"
    /\ pos < actual_batch_size
    /\ \E c \in InputRows(df_columns, pos + 1) :
        LET base == BaseResult(c) IN
        /\ company' = c
        /\ pos' = pos + 1
        /\ processed_count' = ProcessedCount(results)
        /\ calls' = Append(calls, NoCalls)
        /\ scraping_results' = Unset
        /\ relevance_analysis' = Unset
        /\ team_analysis' = Unset
        /\ owner' = "unset"
        /\ IF NoWebsite(base)
              THEN /\ result' = Disqualify(base)
                   /\ results' = AppendResult(results, Disqualify(base))
                   /\ outcomes' = Append(outcomes,
                                         Outcome("NoWebsite", pos + 1, c))
                   /\ pc' = AfterNoWebsite
              ELSE /\ result' = base
                   /\ results' = results
                   /\ outcomes' = outcomes
                   /\ pc' = "scrape"
    /\ UNCHANGED <<frame, summary, df_columns, actual_batch_size, checkpoints>>

\* The for loop is exhausted.
EndLoop ==
    /\ pc = "loop"
    /\ pos = actual_batch_size
    /\ pc' = "done"
    /\ UNCHANGED <<frame, summary, df_columns, actual_batch_size, pos, company,
                   processed_count, result, scraping_results,
                   relevance_analysis, team_analysis, owner, results,
                   checkpoints, calls, outcomes>>

\* ----------------------------------------------------------------- scraper
\* scrape_single_page(website_url) for the homepage: None when the request
\* fails, and always None for a cell that is not a string (url.startswith
\* raises inside the function's own try).
HomepageFetches(url) ==
    IF url = NaN THEN {NonePage} ELSE {NonePage, Page("home")}
\* What find_about_page + scrape_single_page give: no page, a page with
\* empty text, a page with text.
AboutPages == {NonePage, Page(""), Page("about")}
TeamPages == {NonePage, Page("team")}
ContactPages == {NonePage, Page("contact")}

\* Where scrape_company_pages can raise once the homepage is stored: in
\* none of the page searches, or in find_about_page, find_team_page or
\* find_contact_page (urljoin raises ValueError on a malformed href).
RaisesAt == {"no", "about", "team", "contact"}

\* scrape_company_pages: h is the homepage fetch, a, t, c the about, team
\* and contact pages found, raises tells where page discovery raised after
\* the homepage was stored; the pages stored before it stay in the dict.
ScrapeCompanyPages(h, a, t, c, raises) ==
    IF ~PageTruthy(h)
      THEN [homepage |-> NonePage, about_page |-> NonePage,
            team_page |-> NonePage, contact_page |-> NonePage,
            error |-> "Could not access homepage"]
      ELSE IF raises = "about"
        THEN [homepage |-> h, about_page |-> NonePage,
              team_page |-> NonePage, contact_page |-> NonePage,
              error |-> "Scraping error"]
      ELSE IF raises = "team"
        THEN [homepage |-> h, about_page |-> a,
              team_page |-> NonePage, contact_page |-> NonePage,
              error |-> "Scraping error"]
      ELSE IF raises = "contact"
        THEN [homepage |-> h, about_page |-> a,
              team_page |-> t, contact_page |-> NonePage,
              error |-> "Scraping error"]
        ELSE [homepage |-> h, about_page |-> a, team_page |-> t,
              contact_page |-> c, error |-> None]

ScrapeOutcomes(url) ==
    {ScrapeCompanyPages(h, a, t, c, raises) :
        h \in HomepageFetches(url), a \in AboutPages, t \in TeamPages,
        c \in ContactPages, raises \in RaisesAt}

\* The error is honoured only when no homepage came with it.
ScrapeFailedUnlessHomepage(s) == Truthy(s.error) /\ ~PageTruthy(s.homepage)

\* if scraping_results['error']
ScrapeFailed(s) == Truthy(s.error)

\* Where control goes after the scrape-failed exit (continue).
AfterScrapeFailed == "loop"

\* One more call of a collaborator for the current row.
Called(cs, p, who) == [cs EXCEPT ![p][who] = @ + 1]

\* scraping_results = scrape_company_pages(website_url) and the
\* scrape-failed exit.
Scrape ==
    /\ pc = "scrape"
    /\ \E s \in ScrapeOutcomes(result["Website URL"]) :
        /\ scraping_results' = s
        /\ calls' = Called(calls, pos, "scrape")
        /\ IF ScrapeFailed(s)
              THEN /\ result' = Disqualify(result)
                   /\ results' = AppendResult(results, Disqualify(result))
                   /\ outcomes' = Append(outcomes,
                                         Outcome("ScrapeFailed", pos, company))
                   /\ pc' = AfterScrapeFailed
              ELSE /\ UNCHANGED <<result, results, outcomes>>
                   /\ pc' = "classify"
    /\ UNCHANGED <<frame, summary, df_columns, actual_batch_size, pos, company,
                   processed_count, relevance_analysis, team_analysis, owner,
                   checkpoints>>

\* ------------------------------------------------------------- classifier
Raise == [kind |-> "raise"]

\* The confidences the language model answers with: 0.80000 and 0.80001.
Confidences == {IrrelevantConfidence, IrrelevantConfidence + 1}
\* The (phone_number, street_address) pairs it extracts; both are
\* Optional[str], so an absent value is None or ''.
Contacts == {<<None, "a1">>, <<"p1", "">>}

\* The dict classify_relevance_and_contact returns.
RelevanceSignals ==
    {[kind |-> "ok", is_relevant |-> rel, confidence |-> conf,
      reasoning |-> "why", phone_number |-> ct[1], street_address |-> ct[2]] :
        rel \in BOOLEAN, conf \in Confidences, ct \in Contacts}

\* classify_relevance_and_contact(...): the dict, or chain.invoke raises.
ClassifyOutcomes == {Raise} \cup RelevanceSignals

\* The threshold test with >= in place of >.
IsIrrelevantAtLeast(ra) ==
    ~ra.is_relevant /\ ra.confidence >= IrrelevantConfidence

\* if not relevance_analysis['is_relevant'] and
\*    relevance_analysis['confidence'] > 0.8
IsIrrelevant(ra) == ~ra.is_relevant /\ ra.confidence > IrrelevantConfidence

\* The except branch of AI call 1 disqualifying the company.
OnClassifierErrorDisqualify(r) == Disqualify(r)

\* The record appended by the except branch of AI call 1.
OnClassifierError(r) == r

\* The irrelevant exit without its continue.
AfterIrrelevantNoContinue == "team_check"

\* Where control goes after the irrelevant exit (continue).
AfterIrrelevant == "loop"

\* The except branch of AI call 1 trying the call again.
AfterClassifierErrorRetry == "classify"

\* The except branch of AI call 1 raising again.
AfterClassifierErrorReraise == "raised"

\* Where control goes after the except branch of AI call 1 (continue).
AfterClassifierError == "loop"

\* AI call 1 with its irrelevant exit and its except branch.
Classify ==
    /\ pc = "classify"
    /\ calls' = Called(calls, pos, "classify")
    /\ \E ra \in ClassifyOutcomes :
        IF ra = Raise
          THEN /\ result' = OnClassifierError(result)
               /\ results' = AppendResult(results, OnClassifierError(result))
               /\ outcomes' = Append(outcomes,
                                     Outcome("ClassifierError", pos, company))
               /\ pc' = AfterClassifierError
               /\ UNCHANGED relevance_analysis
          ELSE /\ relevance_analysis' = ra
               /\ IF IsIrrelevant(ra)
                    THEN /\ result' = Disqualify(result)
                         /\ results' = AppendResult(results, Disqualify(result))
                         /\ outcomes' = Append(outcomes,
                                          Outcome("Irrelevant", pos, company))
                         /\ pc' = AfterIrrelevant
                    ELSE /\ UNCHANGED <<result, results, outcomes>>
                         /\ pc' = "team_check"
    /\ UNCHANGED <<frame, summary, df_columns, actual_batch_size, pos, company,
                   processed_count, scraping_results, team_analysis, owner,
                   checkpoints>>

\* has_team_data = bool(team_page) or bool(about_page)
HasTeamData(s) == PageTruthy(s.team_page) \/ PageTruthy(s.about_page)

\* The contact overlay without its non-empty tests.
EnrichAlways(r, ra) ==
    [r EXCEPT !["Phone Number"] = ra.phone_number,
              !["Street Address"] = ra.street_address]

\* The contact overlay from the first AI call.
Enrich(r, ra) ==
    LET r1 == IF Truthy(ra.phone_number)
                THEN [r EXCEPT !["Phone Number"] = ra.phone_number]
                ELSE r
    IN IF Truthy(ra.street_address)
         THEN [r1 EXCEPT !["Street Address"] = ra.street_address]
         ELSE r1

\* owner = result.get('Company owner', 'James')
ManualReviewOwner(r) == DictGet(r, "Company owner", "James")

\* The manual-review exits writing the owner name left by the company
\* before (a stale local) into the record.
ManualReviewResultStaleOwner(r, ra) ==
    [Enrich(r, ra) EXCEPT !["Company owner"] =
        IF results = <<>> THEN "James"
        ELSE results[Len(results)]["Company owner"]]

\* The manual-review exits marking the record as "other".
ManualReviewResultAsOther(r, ra) ==
    [r EXCEPT !["Lifecycle Stage"] = "other"]

\* The manual-review exits also storing the team count of zero.
ManualReviewResultWithCount(r, ra) ==
    [Enrich(r, ra) EXCEPT !["Number of Employees"] = 0]

\* The record appended on the manual-review exits that print an owner.
ManualReviewResult(r, ra) == Enrich(r, ra)

\* The no-team-data exit without its continue.
AfterNoTeamDataNoContinue == "analyze"

\* Where control goes after the no-team-data exit (continue).
AfterNoTeamData == "loop"

\* The team-data presence check and its manual-review exit.
TeamCheck ==
    /\ pc = "team_check"
    /\ IF ~HasTeamData(scraping_results)
         THEN /\ owner' = ManualReviewOwner(result)
              /\ result' = ManualReviewResult(result, relevance_analysis)
              /\ results' = AppendResult(results,
                               ManualReviewResult(result, relevance_analysis))
              /\ outcomes' = Append(outcomes,
                                    Outcome("NoTeamData", pos, company))
              /\ pc' = AfterNoTeamData
         ELSE /\ UNCHANGED <<owner, result, results, outcomes>>
              /\ pc' = "analyze"
    /\ UNCHANGED <<frame, summary, df_columns, actual_batch_size, pos, company,
                   processed_count, scraping_results, relevance_analysis,
                   team_analysis, checkpoints, calls>>

\* --------------------------------------------------------------- analyzer
\* The employee_count values the language model answers with (an int, not
\* constrained to be non-negative).
TeamCounts == {-1, 0, 1, MinTeamSize - 1, MinTeamSize, EllinorTeamSize - 1,
               EllinorTeamSize, MattTeamSize - 1, MattTeamSize}

\* What chain.invoke gives in analyze_team_members: it raises, or a parsed
\* TeamMemberCount.
TeamLLMOutcomes ==
    {Raise} \cup {[kind |-> "ok", employee_count |-> n, confidence |-> 90000,
                   names_found |-> <<>>] : n \in TeamCounts}

\* analyze_team_members without its early return for empty content.
analyze_team_membersAlwaysAsks(team_text, about_text, llm) ==
    [ret |-> llm, llm_calls |-> 1]

\* analyze_team_members({'team_text': ..., 'about_text': ...}) when the
\* language model would answer llm: the returned dict (or Raise) and the
\* number of language-model calls made.
analyze_team_members(team_text, about_text, llm) ==
    IF ~Truthy(team_text) /\ ~Truthy(about_text)
      THEN [ret |-> [kind |-> "ok", employee_count |-> 0, confidence |-> 0,
                     names_found |-> <<>>],
            llm_calls |-> 0]
      ELSE [ret |-> llm, llm_calls |-> 1]

\* The small-team test without its lower bound.
TeamTooSmallNoLowerBound(n) == n < MinTeamSize

\* The small-team test with <= 5 in place of < 5.
TeamTooSmallInclusive(n) == 1 <= n /\ n <= MinTeamSize

\* if 1 <= team_count < 5
TeamTooSmall(n) == 1 <= n /\ n < MinTeamSize

\* elif team_count == 0
TeamParseFailed(n) == n = 0

\* The owner tiers with > in place of >=.
AssignOwnerStrict(n) ==
    IF n > MattTeamSize THEN "Matt"
    ELSE IF n > EllinorTeamSize THEN "Ellinor"
    ELSE "James"

\* The owner tiers of the approve branch.
AssignOwner(n) ==
    IF n >= MattTeamSize THEN "Matt"
    ELSE IF n >= EllinorTeamSize THEN "Ellinor"
    ELSE "James"

\* The record appended for a team that is too small.
TeamTooSmallResult(r, n) ==
    [Disqualify(r) EXCEPT !["Number of Employees"] = n]

\* The record appended on approval.
ApprovedResult(r, ra, n) ==
    Enrich([r EXCEPT !["Company owner"] = AssignOwner(n),
                     !["Number of Employees"] = n], ra)

\* AI call 2 with the team size rules and its except branch.
Analyze ==
    /\ pc = "analyze"
    /\ calls' = Called(calls, pos, "analyze")
    /\ \E llm \in TeamLLMOutcomes :
        LET ta == analyze_team_members(TextOf(scraping_results.team_page),
                                       TextOf(scraping_results.about_page),
                                       llm).ret
        IN
        IF ta = Raise
          THEN /\ owner' = ManualReviewOwner(result)
               /\ result' = ManualReviewResult(result, relevance_analysis)
               /\ results' = AppendResult(results,
                                ManualReviewResult(result, relevance_analysis))
               /\ outcomes' = Append(outcomes,
                                     Outcome("AnalyzerError", pos, company))
               /\ UNCHANGED team_analysis
          ELSE /\ team_analysis' = ta
               /\ IF TeamTooSmall(ta.employee_count)
                    THEN /\ result' = TeamTooSmallResult(result,
                                                         ta.employee_count)
                         /\ results' = AppendResult(results,
                               TeamTooSmallResult(result, ta.employee_count))
                         /\ outcomes' = Append(outcomes,
                                  Outcome("TeamTooSmall", pos, company))
                         /\ UNCHANGED owner
                    ELSE IF TeamParseFailed(ta.employee_count)
                      THEN /\ owner' = ManualReviewOwner(result)
                           /\ result' = ManualReviewResult(result,
                                                           relevance_analysis)
                           /\ results' = AppendResult(results,
                                 ManualReviewResult(result, relevance_analysis))
                           /\ outcomes' = Append(outcomes,
                                    Outcome("TeamParseFailed", pos, company))
                      ELSE /\ owner' = AssignOwner(ta.employee_count)
                           /\ result' = ApprovedResult(result,
                                 relevance_analysis, ta.employee_count)
                           /\ results' = AppendResult(results,
                                 ApprovedResult(result, relevance_analysis,
                                                ta.employee_count))
                           /\ outcomes' = Append(outcomes,
                                    Outcome("Approved", pos, company))
    /\ pc' = "checkpoint"
    /\ UNCHANGED <<frame, summary, df_columns, actual_batch_size, pos, company,
                   processed_count, scraping_results, relevance_analysis,
                   checkpoints>>

\* if processed_count % 10 == 0: write the progress checkpoint.
SaveCheckpoint ==
    /\ pc = "checkpoint"
    /\ checkpoints' =
         IF processed_count % CheckpointEvery = 0
           THEN Append(checkpoints,
                       [count |-> processed_count, rows |-> results])
           ELSE checkpoints
    /\ pc' = "loop"
    /\ UNCHANGED <<frame, summary, df_columns, actual_batch_size, pos, company,
                   processed_count, result, scraping_results,
                   relevance_analysis, team_analysis, owner, results, calls,
                   outcomes>>

\* ---------------------------------------------------------- final summary
\* The columns whose cells are text in the model.
TextColumns == hubspot_columns \ {"Record ID", "Number of Employees"}

\* needle in str(r): the repr of the dict holds the repr of each key and of
\* each value.  No key holds one of the needles searched for, and a cell
\* of the model holds a needle only when it is that text.
InStr(needle, r) == \E k \in TextColumns : r[k] = needle

\* r.get('Lifecycle Stage') == 'other'
IsOther(r) == r["Lifecycle Stage"] = "other"

\* approved: r.get('Lifecycle Stage') != 'other'
Approved(rs) == Cardinality({i \in 1..Len(rs) : ~IsOther(rs[i])})

\* dq_no_website: not r.get('Website URL')
DqNoWebsite(rs) ==
    Cardinality({i \in 1..Len(rs) : ~Truthy(rs[i]["Website URL"])})

\* dq_broken, dq_irrelevant, dq_small_team: Lifecycle Stage 'other' and
\* the word in str(r).
DqWith(rs, needle) ==
    Cardinality({i \in 1..Len(rs) : IsOther(rs[i]) /\ InStr(needle, rs[i])})

\* total_ai_calls: Lifecycle Stage != 'other' or 'Irrelevant' in str(r)
TotalAiCalls(rs) ==
    Cardinality({i \in 1..Len(rs) :
                    ~IsOther(rs[i]) \/ InStr("Irrelevant", rs[i])})

\* team_ai_calls = approved
TeamAiCalls(rs) == Approved(rs)

\* The statistics printed after the loop.
Summary(rs) ==
    [total |-> Len(rs),
     approved |-> Approved(rs),
     dq_no_website |-> DqNoWebsite(rs),
     dq_broken |-> DqWith(rs, "Scraping failed"),
     dq_irrelevant |-> DqWith(rs, "Irrelevant"),
     dq_small_team |-> DqWith(rs, "small"),
     manual_review |-> Approved(rs),
     total_ai_calls |-> TotalAiCalls(rs),
     team_ai_calls |-> TeamAiCalls(rs)]

\* The final summary, the last statements of process_companies_fast: the
\* function ends with it, and the names bound in the loop body end too.
Summarize ==
    /\ pc = "done"
    /\ summary' = Summary(results)
    /\ pc' = "summarized"
    /\ company' = Unset
    /\ result' = Unset
    /\ scraping_results' = Unset
    /\ relevance_analysis' = Unset
    /\ team_analysis' = Unset
    /\ owner' = "unset"
    /\ UNCHANGED <<frame, df_columns, actual_batch_size, pos,
                   processed_count, results, checkpoints, calls, outcomes>>

Next ==
    \/ StartRow
    \/ Scrape
    \/ Classify
    \/ TeamCheck
    \/ Analyze
    \/ SaveCheckpoint
    \/ EndLoop

\* The processing loop of process_companies_fast.
Spec == Init /\ [][Next]_vars

\* The loop followed by the final summary.
SummaryNext ==
    \/ Next
    \/ Summarize

SummarySpec == Init /\ [][SummaryNext]_vars

\* ------------------------------------------------------------- long batches
\* Batches long enough to reach a progress checkpoint, over one kind of
\* row and one answer of each collaborator: a row with a website and no
\* owner, a scrape that fails or finds a team page, a relevant company, a
\* team of sixteen.
LongRow(i) == Row(hubspot_columns, i, "acme.example", NaN)
LongScrapes ==
    {ScrapeCompanyPages(h, NonePage, Page("team"), NonePage, "no") :
        h \in HomepageFetches("acme.example")}
LongRelevance ==
    [kind |-> "ok", is_relevant |-> TRUE, confidence |-> IrrelevantConfidence,
     reasoning |-> "why", phone_number |-> "p1", street_address |-> ""]
LongTeam ==
    [kind |-> "ok", employee_count |-> EllinorTeamSize, confidence |-> 90000,
     names_found |-> <<>>]

Long ==
    /\ company \in {Unset} \cup {LongRow(i) : i \in 1..pos}
    /\ scraping_results \in {Unset} \cup LongScrapes
    /\ relevance_analysis \in {Unset, LongRelevance}
    /\ team_analysis \in {Unset, LongTeam}
    /\ \A i \in 1..Len(outcomes) :
          outcomes[i].reason \in {"ScrapeFailed", "Approved"}

LongInit ==
    /\ df_columns = hubspot_columns
    /\ actual_batch_size \in 0..(CheckpointEvery + MaxBatch)
    /\ BeforeLoop
    /\ frame = Unset

LongStartRow == StartRow /\ Long'
LongScrape == Scrape /\ Long'
LongClassify == Classify /\ Long'
LongTeamCheck == TeamCheck /\ Long'
LongAnalyze == Analyze /\ Long'

LongNext ==
    \/ LongStartRow
    \/ LongScrape
    \/ LongClassify
    \/ LongTeamCheck
    \/ LongAnalyze
    \/ SaveCheckpoint
    \/ EndLoop
    \/ Summarize

LongSpec == LongInit /\ [][LongNext]_vars

\* ------------------------------------------------ the analyzer on its own
\* count_team_members(team_page_content, about_page_content): the older
\* entry point, with the same early return and the same call.
count_team_members(team_page_content, about_page_content, llm) ==
    IF ~Truthy(team_page_content) /\ ~Truthy(about_page_content)
      THEN [ret |-> [kind |-> "ok", employee_count |-> 0, confidence |-> 0,
                     names_found |-> <<>>],
            llm_calls |-> 0]
      ELSE [ret |-> llm, llm_calls |-> 1]

\* The texts a caller passes: None, '', blanks only, text with names.
AnalyzerTexts == {None, "", " ", "names"}

\* The loop of process_companies_fast is not running.
LoopIdle ==
    /\ df_columns = hubspot_columns
    /\ actual_batch_size = 0
    /\ BeforeLoop

\* A call of one of the two functions, llm being what the language model
\* answers if it is asked.
AnalyzerInit ==
    /\ LoopIdle
    /\ frame \in [fn : {"analyze_team_members", "count_team_members"},
                  pc : {"called"},
                  team_text : AnalyzerTexts, about_text : AnalyzerTexts,
                  llm : TeamLLMOutcomes, ret : {Unset}, llm_calls : {0}]

AnalyzeTeamMembers ==
    /\ frame.fn = "analyze_team_members" /\ frame.pc = "called"
    /\ LET out == analyze_team_members(frame.team_text, frame.about_text,
                                       frame.llm)
       IN frame' = [frame EXCEPT !.pc = "returned", !.ret = out.ret,
                                 !.llm_calls = out.llm_calls]
    /\ UNCHANGED loop_vars

CountTeamMembers ==
    /\ frame.fn = "count_team_members" /\ frame.pc = "called"
    /\ LET out == count_team_members(frame.team_text, frame.about_text,
                                     frame.llm)
       IN frame' = [frame EXCEPT !.pc = "returned", !.ret = out.ret,
                                 !.llm_calls = out.llm_calls]
    /\ UNCHANGED loop_vars

AnalyzerNext ==
    \/ AnalyzeTeamMembers
    \/ CountTeamMembers

AnalyzerSpec == AnalyzerInit /\ [][AnalyzerNext]_vars

\* ------------------------------------------------- the scraper on its own
\* A URL is the sequence of its parts, the scheme first when it has one.
Urls ==
    {<<"acme.example">>, <<"https://", "acme.example">>,
     <<"http://", "acme.example">>}

\* A cell that is no string, the float NaN, given as the URL.
NaNUrl == <<NaN>>

\* url.startswith(prefix)
StartsWith(url, prefix) == Len(url) > 0 /\ url[1] = prefix

\* if not url.startswith(('http://', 'https://')): url = 'https://' + url
WithScheme(url) ==
    IF StartsWith(url, "http://") \/ StartsWith(url, "https://")
      THEN url
      ELSE <<"https://">> \o url

\* url.replace('https://', 'http://')
HttpUrl(url) ==
    [i \in 1..Len(url) |-> IF url[i] = "https://" THEN "http://" ELSE url[i]]

\* What requests.get + raise_for_status does: a response, SSLError or
\* ConnectionError, another RequestException (HTTPError, Timeout, ...), or
\* an exception that is no RequestException.
GetOutcomes == {"ok", "ssl_or_connection", "request_error", "other_error"}

\* The inner except clauses after the verified attempt: where control goes.
AfterFirstAttempt(url, outcome) ==
    CASE outcome = "ok" -> "parse"
      [] outcome = "ssl_or_connection" -> "retry_unverified"
      [] outcome = "request_error" ->
            IF StartsWith(url, "https://") THEN "retry_http" ELSE "except"
      [] OTHER -> "except"

\* A failed unverified retry going on to the http:// retry.
AfterFallbackTryHttp(at, url, outcome) ==
    IF outcome = "ok" THEN "parse"
    ELSE IF at = "retry_unverified" /\ StartsWith(url, "https://")
      THEN "retry_http"
    ELSE "except"

\* After a fallback request, made inside an except clause: its exception
\* is caught by the outer except only.
AfterFallback(at, url, outcome) ==
    IF outcome = "ok" THEN "parse" ELSE "except"

\* requests.get(url, ..., verify=v)
Request(url, v) == [url |-> url, verify |-> v]

\* A call scrape_single_page(url); a cell that is no string (NaN) is
\* passed as it is.
SinglePageCalls ==
    [fn : {"scrape_single_page"}, pc : {"called"},
     url : Urls \cup {NaNUrl}, requests : {<<>>}, first : {"none"},
     second : {"none"}, ret : {Unset}]

\* headers = ...; the scheme is added.  url.startswith raises on a float.
SinglePageBegin ==
    /\ frame.fn = "scrape_single_page" /\ frame.pc = "called"
    /\ frame' = IF frame.url = NaNUrl
                  THEN [frame EXCEPT !.pc = "except"]
                  ELSE [frame EXCEPT !.pc = "first",
                                     !.url = WithScheme(frame.url)]
    /\ UNCHANGED loop_vars

\* The attempt with verify=True.
SinglePageFirstAttempt ==
    /\ frame.fn = "scrape_single_page" /\ frame.pc = "first"
    /\ \E outcome \in GetOutcomes :
         frame' = [frame EXCEPT
                     !.requests = Append(@, Request(frame.url, TRUE)),
                     !.first = outcome,
                     !.pc = AfterFirstAttempt(frame.url, outcome)]
    /\ UNCHANGED loop_vars

\* The retry with verify=False.
SinglePageRetryUnverified ==
    /\ frame.fn = "scrape_single_page" /\ frame.pc = "retry_unverified"
    /\ \E outcome \in GetOutcomes :
         frame' = [frame EXCEPT
                     !.requests = Append(@, Request(frame.url, FALSE)),
                     !.second = outcome,
                     !.pc = AfterFallback("retry_unverified", frame.url,
                                          outcome)]
    /\ UNCHANGED loop_vars

\* The retry of the http:// URL (verify left at its default).
SinglePageRetryHttp ==
    /\ frame.fn = "scrape_single_page" /\ frame.pc = "retry_http"
    /\ \E outcome \in GetOutcomes :
         frame' = [frame EXCEPT
                     !.requests = Append(@, Request(HttpUrl(frame.url), TRUE)),
                     !.second = outcome,
                     !.pc = AfterFallback("retry_http", frame.url, outcome)]
    /\ UNCHANGED loop_vars

\* BeautifulSoup and the text clean-up, which return the page or raise.
SinglePageParse ==
    /\ frame.fn = "scrape_single_page" /\ frame.pc = "parse"
    /\ \/ frame' = [frame EXCEPT !.pc = "returned", !.ret = Page("text")]
       \/ frame' = [frame EXCEPT !.pc = "except"]
    /\ UNCHANGED loop_vars

\* except Exception: return None
SinglePageExcept ==
    /\ frame.fn = "scrape_single_page" /\ frame.pc = "except"
    /\ frame' = [frame EXCEPT !.pc = "returned", !.ret = NonePage]
    /\ UNCHANGED loop_vars

\* A call scrape_company_pages(website_url), with what its page fetches
\* give and where its page discovery raises.
CompanyPagesCalls ==
    {[fn |-> "scrape_company_pages", pc |-> "called", url |-> u,
      h |-> h, a |-> a, t |-> t, c |-> c, raises |-> r, ret |-> Unset] :
        u \in {"acme.example"}, h \in HomepageFetches("acme.example"),
        a \in AboutPages, t \in TeamPages, c \in ContactPages,
        r \in RaisesAt}

ScrapeCompanyPagesCall ==
    /\ frame.fn = "scrape_company_pages" /\ frame.pc = "called"
    /\ frame' = [frame EXCEPT
                   !.pc = "returned",
                   !.ret = ScrapeCompanyPages(frame.h, frame.a, frame.t,
                                              frame.c, frame.raises)]
    /\ UNCHANGED loop_vars

ScraperInit ==
    /\ LoopIdle
    /\ frame \in SinglePageCalls \cup CompanyPagesCalls

ScraperNext ==
    \/ SinglePageBegin
    \/ SinglePageFirstAttempt
    \/ SinglePageRetryUnverified
    \/ SinglePageRetryHttp
    \/ SinglePageParse
    \/ SinglePageExcept
    \/ ScrapeCompanyPagesCall

ScraperSpec == ScraperInit /\ [][ScraperNext]_vars

\* ------------------------------------------------------------- properties
InBody == pc \in {"scrape", "classify", "team_check", "analyze"}
BetweenRows == pc \in {"loop", "checkpoint", "done"}

\* The record of the row taken last has been appended; the names bound in
\* the loop body still hold that row's values.
RowDone == BetweenRows /\ pos > 0 /\ Len(results) = pos /\ Len(outcomes) = pos

LastReason == outcomes[pos].reason
LastRecord == results[pos]

Blank(v) == v \in {None, NaN, ""}
\* The row has no website: no such column, or a blank cell.
WebsiteEmptyOrAbsent(c) ==
    "Website URL" \notin DOMAIN c \/ Blank(c["Website URL"])
\* The row came with an owner.
HadOwner(c) == "Company owner" \in DOMAIN c /\ ~Blank(c["Company owner"])

DQFields == {"Lifecycle Stage", "Company owner", "Sector", "Type"}
\* None of the four disqualification fields of rec differs from the row's.
FourUntouched(rec, c) == \A k \in DQFields : k \in DOMAIN c /\ rec[k] = c[k]

\* C1: every row of the slice yields exactly one record: while a row is in
\* the loop body results holds one record per earlier row, once the row has
\* left the body it holds one per row taken, the i-th record is the one of
\* the i-th row, and after the loop there are as many records as rows.
C1_OneRecordPerRow ==
    /\ InBody => Len(results) = pos - 1
    /\ BetweenRows => Len(results) = pos
    /\ \A i \in 1..Len(results) : results[i]["Record ID"] = i
    /\ pc = "done" => Len(results) = actual_batch_size

C1_Witness ==
    /\ pc = "done"
    /\ Len(results) = 2
    /\ outcomes[1].reason = "ScrapeFailed"
    /\ outcomes[2].reason = "Approved"

\* C2: a raised classifier or analyzer call leaves one record for that
\* company with none of the four disqualification fields overwritten, and
\* the run does not stop there: it only ends with every row of the slice
\* taken.
C2_FailureDoesNotAbort ==
    /\ \A i \in 1..Len(outcomes) :
          outcomes[i].reason \in {"ClassifierError", "AnalyzerError"}
            => /\ i <= Len(results)
               /\ outcomes[i].row = i
               /\ FourUntouched(results[i], outcomes[i].company)
    /\ ~(InBody \/ BetweenRows) => pos = actual_batch_size
    /\ pc = "done" => pos = actual_batch_size

C2_Witness ==
    /\ pc = "done"
    /\ Len(outcomes) = 2
    /\ outcomes[1].reason = "ClassifierError"
    /\ outcomes[2].reason = "AnalyzerError"

\* C3: a company whose evaluation ended at a step has no call of a later
\* step's collaborator: none at all for NoWebsite, no classifier and no
\* analyzer call for ScrapeFailed, no analyzer call for Irrelevant,
\* ClassifierError and NoTeamData.
C3_ShortCircuit ==
    \A i \in 1..Len(outcomes) :
        LET why == outcomes[i].reason
            made == calls[outcomes[i].row]
        IN /\ why = "NoWebsite" => made = NoCalls
           /\ why = "ScrapeFailed" => made.classify = 0 /\ made.analyze = 0
           /\ why \in {"Irrelevant", "ClassifierError", "NoTeamData"}
                => made.analyze = 0

C3_Witness ==
    /\ pc = "done"
    /\ Len(outcomes) = 2
    /\ outcomes[1].reason = "Irrelevant"
    /\ calls[1] = [scrape |-> 1, classify |-> 1, analyze |-> 0]
    /\ outcomes[2].reason = "NoTeamData"

\* C4: a row whose Website URL is empty or absent, a blank cell included,
\* is Disqualified(NoWebsite) with no scraper, classifier or analyzer call.
C4_BlankWebsiteIsNoWebsite ==
    /\ \A i \in 1..Len(outcomes) :
          WebsiteEmptyOrAbsent(outcomes[i].company)
            => /\ outcomes[i].reason = "NoWebsite"
               /\ calls[outcomes[i].row] = NoCalls
    /\ pos > 0 /\ company # Unset /\ WebsiteEmptyOrAbsent(company)
         => calls[pos] = NoCalls

\* C5: whenever the scrape result has its error set the company is
\* Disqualified(ScrapeFailed), its record is the row with only the four
\* disqualification fields overwritten, whatever the page fields hold, and
\* the evaluation never goes on with such a scrape result.
C5_ErrorMeansScrapeFailed ==
    scraping_results # Unset /\ scraping_results.error # None
      => /\ ~(pc \in {"classify", "team_check", "analyze", "checkpoint"})
         /\ RowDone
         /\ LastReason = "ScrapeFailed"
         /\ \A k \in DOMAIN company :
               LastRecord[k] = CASE k = "Lifecycle Stage" -> "other"
                                 [] k = "Company owner" -> "no owner"
                                 [] k = "Sector" -> "n/a"
                                 [] k = "Type" -> "other"
                                 [] OTHER -> company[k]
         /\ calls[pos] = [scrape |-> 1, classify |-> 0, analyze |-> 0]

C5_Witness ==
    /\ RowDone
    /\ scraping_results # Unset
    /\ scraping_results.error = "Scraping error"
    /\ PageTruthy(scraping_results.homepage)
    /\ LastReason = "ScrapeFailed"

\* C6: after a successful relevance call the company is
\* Disqualified(Irrelevant) exactly when is_relevant is false and the
\* confidence is strictly above 0.8.
C6_IrrelevantThreshold ==
    relevance_analysis # Unset
      => LET sure == relevance_analysis.is_relevant = FALSE
                     /\ relevance_analysis.confidence > IrrelevantConfidence
         IN /\ pc \in {"team_check", "analyze", "checkpoint"} => ~sure
            /\ RowDone => (LastReason = "Irrelevant" <=> sure)

C6_Witness ==
    /\ RowDone
    /\ relevance_analysis # Unset
    /\ relevance_analysis.is_relevant = FALSE
    /\ relevance_analysis.confidence = IrrelevantConfidence
    /\ LastReason # "Irrelevant"

\* C7: when the relevance classifier call fails the appended record equals
\* the row in every field.
C7_ClassifierErrorKeepsRow ==
    \A i \in 1..Len(outcomes) :
        outcomes[i].reason = "ClassifierError"
          => /\ i <= Len(results)
             /\ DOMAIN outcomes[i].company = hubspot_columns
             /\ \A k \in hubspot_columns :
                   results[i][k] = outcomes[i].company[k]

C7_Witness ==
    /\ RowDone
    /\ LastReason = "ClassifierError"
    /\ relevance_analysis = Unset
    /\ calls[pos].classify = 1

\* C8: on the NoTeamData, AnalyzerError and TeamParseFailed exits the
\* record's Company owner is the row's owner when it had one and "James"
\* when it had none.
C8_OwnerDefaultsToJames ==
    \A i \in 1..Len(outcomes) :
        outcomes[i].reason \in {"NoTeamData", "AnalyzerError",
                                "TeamParseFailed"}
          => /\ i <= Len(results)
             /\ results[i]["Company owner"] =
                   IF HadOwner(outcomes[i].company)
                     THEN outcomes[i].company["Company owner"]
                     ELSE "James"

\* C9: when the analyzer succeeds with employee_count = 0 the company ends
\* as ManualReview(TeamParseFailed): Lifecycle Stage, Sector and Type keep
\* the row's values and the owner is not turned into "no owner".
C9_ZeroCountIsParseFailed ==
    team_analysis # Unset /\ team_analysis.employee_count = 0
      => /\ RowDone
         /\ LastReason = "TeamParseFailed"
         /\ \A k \in {"Lifecycle Stage", "Sector", "Type"} :
               LastRecord[k] = company[k]
         /\ company["Company owner"] # "no owner"
              => LastRecord["Company owner"] # "no owner"

C9_Witness ==
    /\ RowDone
    /\ team_analysis # Unset
    /\ team_analysis.employee_count = 0
    /\ PageTruthy(scraping_results.team_page)
    /\ LastReason = "TeamParseFailed"

\* C10: when the analyzer succeeds, the company is
\* Disqualified(TeamTooSmall) exactly when 1 <= employee_count < 5, and
\* then the record's Number of Employees is the parsed count.
C10_TeamTooSmall ==
    team_analysis # Unset
      => LET n == team_analysis.employee_count IN
         /\ RowDone
         /\ LastReason = "TeamTooSmall" <=> (1 <= n /\ n < MinTeamSize)
         /\ LastReason = "TeamTooSmall"
              => LastRecord["Number of Employees"] = n

C10_Witness ==
    /\ RowDone
    /\ team_analysis # Unset
    /\ team_analysis.employee_count = MinTeamSize - 1
    /\ LastReason = "TeamTooSmall"
    /\ LastRecord["Number of Employees"] = MinTeamSize - 1
    /\ company["Number of Employees"] # MinTeamSize - 1

DQReasons == {"NoWebsite", "ScrapeFailed", "Irrelevant", "TeamTooSmall"}
ManualReviewReasons ==
    {"ClassifierError", "NoTeamData", "AnalyzerError", "TeamParseFailed"}

\* The value a disqualification gives to each of the four fields.
DQValue(k) ==
    CASE k = "Lifecycle Stage" -> "other"
      [] k = "Company owner" -> "no owner"
      [] k = "Sector" -> "n/a"
      [] k = "Type" -> "other"

\* C11: when the analyzer succeeds with employee_count >= 5 the company is
\* Approved, Number of Employees is the parsed count, and Company owner is
\* "Matt" from 100, "Ellinor" from 16 to 99, "James" from 5 to 15, whatever
\* owner the row came with.
C11_ApprovedOwnerTiers ==
    team_analysis # Unset /\ team_analysis.employee_count >= MinTeamSize
      => LET n == team_analysis.employee_count IN
         /\ RowDone
         /\ LastReason = "Approved"
         /\ LastRecord["Number of Employees"] = n
         /\ n >= MattTeamSize => LastRecord["Company owner"] = "Matt"
         /\ n >= EllinorTeamSize /\ n < MattTeamSize
              => LastRecord["Company owner"] = "Ellinor"
         /\ n < EllinorTeamSize => LastRecord["Company owner"] = "James"

C11_Witness ==
    /\ RowDone
    /\ team_analysis # Unset
    /\ team_analysis.employee_count = EllinorTeamSize
    /\ company["Company owner"] = "Anna"
    /\ LastReason = "Approved"
    /\ LastRecord["Company owner"] = "Ellinor"

\* C12: every Disqualified record, whatever the reason, has Lifecycle
\* Stage "other", Company owner "no owner", Sector "n/a" and Type "other",
\* and no record has only some of the four turned into these values.
C12_FourFieldsTogether ==
    \A i \in 1..Len(outcomes) :
        LET turned == {k \in DQFields :
                          /\ results[i][k] = DQValue(k)
                          /\ outcomes[i].company[k] # DQValue(k)}
        IN /\ i <= Len(results)
           /\ outcomes[i].reason \in DQReasons
                => \A k \in DQFields : results[i][k] = DQValue(k)
           /\ turned = {} \/ turned = DQFields

C12_Witness ==
    /\ pc = "done"
    /\ Len(outcomes) = 2
    /\ outcomes[1].reason = "TeamTooSmall"
    /\ outcomes[2].reason = "Irrelevant"
    /\ \A k \in DQFields : results[1][k] = DQValue(k)

\* C13: every ManualReview and every Approved record keeps the row's
\* Lifecycle Stage, Sector and Type; a ManualReview record also keeps the
\* row's owner, an Approved record has the owner of its tier.
C13_KeptFields ==
    \A i \in 1..Len(outcomes) :
        outcomes[i].reason \in ManualReviewReasons \cup {"Approved"}
          => /\ i <= Len(results)
             /\ \A k \in {"Lifecycle Stage", "Sector", "Type"} :
                   results[i][k] = outcomes[i].company[k]
             /\ outcomes[i].reason \in ManualReviewReasons
                  => results[i]["Company owner"] =
                        outcomes[i].company["Company owner"]
             /\ outcomes[i].reason = "Approved"
                  => results[i]["Company owner"] \in
                        {"Matt", "Ellinor", "James"}

C13_Witness ==
    /\ pc = "done"
    /\ Len(outcomes) = 2
    /\ outcomes[1].reason = "TeamParseFailed"
    /\ outcomes[2].reason = "Approved"
    /\ results[1]["Company owner"] = "Anna"

\* C14: Phone Number (Street Address) of the record differs from the row's
\* only when the relevance signal's phone_number (street_address) is
\* non-empty, and then it is that extracted value.
C14_EnrichmentNeverBlanks ==
    RowDone
      => /\ LastRecord["Phone Number"] # company["Phone Number"]
              => /\ relevance_analysis # Unset
                 /\ ~Blank(relevance_analysis.phone_number)
                 /\ LastRecord["Phone Number"] =
                       relevance_analysis.phone_number
         /\ LastRecord["Street Address"] # company["Street Address"]
              => /\ relevance_analysis # Unset
                 /\ ~Blank(relevance_analysis.street_address)
                 /\ LastRecord["Street Address"] =
                       relevance_analysis.street_address

C14_Witness ==
    /\ RowDone
    /\ LastReason = "NoTeamData"
    /\ relevance_analysis.phone_number = "p1"
    /\ relevance_analysis.street_address = ""
    /\ LastRecord["Phone Number"] = "p1"
    /\ LastRecord["Street Address"] = company["Street Address"]
    /\ ~Blank(company["Street Address"])

\* C15: for a company whose relevance call succeeded and which was not
\* disqualified as Irrelevant, a non-empty extracted phone or address is in
\* the final record whichever later exit is taken.
C15_EnrichmentOnEveryLaterExit ==
    RowDone /\ relevance_analysis # Unset /\ LastReason # "Irrelevant"
      => /\ ~Blank(relevance_analysis.phone_number)
              => LastRecord["Phone Number"] = relevance_analysis.phone_number
         /\ ~Blank(relevance_analysis.street_address)
              => LastRecord["Street Address"] =
                    relevance_analysis.street_address

\* The number of records that ended with the reason.
Ended(reason) ==
    Cardinality({i \in 1..Len(outcomes) : outcomes[i].reason = reason})

\* The number of rows for which the collaborator was called.
RowsCalling(who) == Cardinality({p \in 1..Len(calls) : calls[p][who] > 0})

\* C16: a checkpoint is written after every company whose processed count
\* is a multiple of 10, whatever its disposition: once p rows are handled
\* there are p div 10 checkpoints, and a batch of n rows leaves n div 10.
C16_CheckpointEveryTenth ==
    /\ pc \in {"loop", "done", "summarized"}
         => Len(checkpoints) = pos \div CheckpointEvery
    /\ pc \in {"done", "summarized"}
         => Len(checkpoints) = actual_batch_size \div CheckpointEvery

\* C17: a checkpoint written at processed count k holds exactly the k
\* records produced so far, in order, and they are the first k records of
\* results from then on.
C17_CheckpointIsPrefix ==
    \A j \in 1..Len(checkpoints) :
        LET k == checkpoints[j].count
            rows == checkpoints[j].rows
        IN /\ k > 0
           /\ k % CheckpointEvery = 0
           /\ Len(rows) = k
           /\ k <= Len(results)
           /\ \A i \in 1..k : rows[i] = results[i] /\ rows[i]["Record ID"] = i

C17_Witness ==
    /\ pc = "summarized"
    /\ Len(results) = CheckpointEvery + 2
    /\ Len(checkpoints) = 1
    /\ checkpoints[1].count = CheckpointEvery
    /\ outcomes[CheckpointEvery + 1].reason = "ScrapeFailed"
    /\ outcomes[CheckpointEvery + 2].reason = "Approved"

\* C18: the classifier-call count of the summary is the number of
\* companies for which the relevance classifier was called.
C18_ClassifierCallCount ==
    pc = "summarized" => summary.total_ai_calls = RowsCalling("classify")

\* C19: the analyzer-call count of the summary is the number of companies
\* for which the team analyzer was called.
C19_AnalyzerCallCount ==
    pc = "summarized" => summary.team_ai_calls = RowsCalling("analyze")

\* C20: the summary's count for each disqualification reason is the number
\* of companies that ended with that reason, and the counts of all
\* dispositions add up to the total processed.
C20_SummaryCounts ==
    pc = "summarized"
      => /\ summary.dq_no_website = Ended("NoWebsite")
         /\ summary.dq_broken = Ended("ScrapeFailed")
         /\ summary.dq_irrelevant = Ended("Irrelevant")
         /\ summary.dq_small_team = Ended("TeamTooSmall")
         /\ summary.total = summary.approved + summary.dq_no_website
                            + summary.dq_broken + summary.dq_irrelevant
                            + summary.dq_small_team

\* What a collaborator answered for the current row: Raise when it was
\* called and bound no name, else the value of the name.
Answer(v, n) == IF v = Unset /\ n > 0 THEN Raise ELSE v

\* The copy of the row's cells a record starts from.
RowCopy(c) ==
    [k \in hubspot_columns |->
        IF k \in DOMAIN c THEN c[k]
        ELSE CASE k = "Company name" -> "Unknown"
               [] k = "Website URL" -> ""
               [] k = "Number of Employees" -> DefaultEmployees
               [] OTHER -> None]

\* The record of a company as a function of the company and of the three
\* collaborators' answers alone (s the scrape result, ra the classifier's
\* answer, ta the analyzer's): no position, no earlier record, no earlier
\* answer enters it.
Evaluate(c, s, ra, ta) ==
    LET base == RowCopy(c) IN
    IF ~Truthy(base["Website URL"]) THEN Disqualify(base)
    ELSE IF Truthy(s.error) THEN Disqualify(base)
    ELSE IF ra = Raise THEN base
    ELSE IF IsIrrelevant(ra) THEN Disqualify(base)
    ELSE IF ~HasTeamData(s) \/ ta = Raise THEN Enrich(base, ra)
    ELSE IF TeamTooSmall(ta.employee_count)
      THEN TeamTooSmallResult(base, ta.employee_count)
    ELSE IF TeamParseFailed(ta.employee_count) THEN Enrich(base, ra)
    ELSE ApprovedResult(base, ra, ta.employee_count)

\* The two rows are the same company but for the Record ID.
SameCompany(c, d) ==
    /\ DOMAIN c = DOMAIN d
    /\ \A k \in DOMAIN c \ {"Record ID"} : c[k] = d[k]

\* C21: the record of a company is determined by the company and the
\* scrape, classifier and analyzer answers it got: at every position of the
\* batch and after every history it is the same function of them, so two
\* evaluations with the same company and answers give identical records.
C21_Deterministic ==
    [](RowDone
         => LastRecord =
               Evaluate(company, scraping_results,
                        Answer(relevance_analysis, calls[pos].classify),
                        Answer(team_analysis, calls[pos].analyze)))

C21_Witness ==
    /\ pc = "done"
    /\ Len(results) = 2
    /\ outcomes[1].reason = "Approved"
    /\ outcomes[2].reason = "Approved"
    /\ SameCompany(outcomes[1].company, outcomes[2].company)
    /\ \A k \in hubspot_columns \ {"Record ID"} :
          results[1][k] = results[2][k]
    /\ results[1]["Record ID"] # results[2]["Record ID"]

Collaborators == {"scrape", "classify", "analyze"}

\* C22: per company each collaborator is called at most once, in the order
\* scrape, classify, analyze; a call is made only for the current company
\* and before its record is appended, so the calls of earlier companies are
\* never added to once the next company has begun.
C22_CallsOnceInOrder ==
    [][/\ Len(calls') >= Len(calls)
       /\ \A p \in 1..Len(calls') : \A who \in Collaborators :
             calls'[p][who] <= 1
       /\ \A p \in 1..Len(calls) :
             /\ \A who \in Collaborators : calls'[p][who] >= calls[p][who]
             /\ calls'[p] # calls[p]
                  => /\ p = pos /\ pos' = pos
                     /\ Len(results) = pos - 1
             /\ calls'[p].scrape > calls[p].scrape => calls[p] = NoCalls
             /\ calls'[p].classify > calls[p].classify
                  => calls[p].scrape = 1 /\ calls[p].analyze = 0
             /\ calls'[p].analyze > calls[p].analyze
                  => calls[p].scrape = 1 /\ calls[p].classify = 1
      ]_vars

C22_Witness ==
    /\ pc = "checkpoint"
    /\ pos = 2
    /\ Len(results) = 2
    /\ calls[1] = [scrape |-> 1, classify |-> 1, analyze |-> 1]
    /\ calls[2] = [scrape |-> 1, classify |-> 1, analyze |-> 1]
    /\ outcomes[1].reason = "AnalyzerError"

\* C23: analyze_team_members called with team text and about text both
\* empty returns employee_count 0, confidence 0.0 and no names, and asks the
\* language model nothing, whatever the model would have answered.
C23_EmptyTextsNoCall ==
    /\ frame # Unset
    /\ frame.fn = "analyze_team_members"
    /\ frame.pc = "returned"
    /\ frame.team_text \in {None, ""}
    /\ frame.about_text \in {None, ""}
    => /\ frame.ret # Raise
       /\ frame.ret.employee_count = 0
       /\ frame.ret.confidence = 0
       /\ frame.ret.names_found = <<>>
       /\ frame.llm_calls = 0

C23_Witness ==
    /\ frame # Unset
    /\ frame.fn = "analyze_team_members"
    /\ frame.pc = "returned"
    /\ frame.team_text = ""
    /\ frame.about_text = None
    /\ frame.llm = Raise
    /\ frame.ret # Raise
    /\ frame.ret.employee_count = 0
    /\ frame.llm_calls = 0

\* C24: results is append-only and a record is final once it is in it: a
\* step appends at most one record, the dict of the current row, and
\* changes no record already there; after the append the dict of the row
\* is not written again.
C24_AppendOnly ==
    [][/\ Len(results') \in {Len(results), Len(results) + 1}
       /\ \A i \in 1..Len(results) : results'[i] = results[i]
       /\ Len(results') = Len(results) + 1
            => results'[Len(results')] = result'
       /\ Len(results) = pos /\ pos' = pos => result' = result
      ]_vars

C24_Witness ==
    /\ pc = "done"
    /\ Len(results) = 2
    /\ outcomes[1].reason = "Approved"
    /\ results[1]["Phone Number"] = "p1"
    /\ results[1]["Company owner"] = "Matt"
    /\ outcomes[2].reason = "TeamTooSmall"
    /\ results[2]["Company owner"] = "no owner"

\* The fields a rule of the pipeline may overlay.
OverlaidFields ==
    {"Lifecycle Stage", "Company owner", "Sector", "Type",
     "Number of Employees", "Phone Number", "Street Address"}

\* C25: in every record the fields other than Lifecycle Stage, Company
\* owner, Sector, Type, Number of Employees, Phone Number and Street
\* Address hold the row's values (an empty value for a column the file
\* does not have), and Number of Employees differs from the row's only on
\* the TeamTooSmall and Approved outcomes.
C25_PassthroughFrame ==
    [](\A i \in 1..Len(outcomes) :
          LET c == outcomes[i].company IN
          /\ i <= Len(results)
          /\ DOMAIN results[i] = hubspot_columns
          /\ \A k \in hubspot_columns \ OverlaidFields :
                IF k \in DOMAIN c THEN results[i][k] = c[k]
                                  ELSE Blank(results[i][k])
          /\ results[i]["Number of Employees"] # c["Number of Employees"]
                => outcomes[i].reason \in {"TeamTooSmall", "Approved"})

C25_Witness ==
    /\ pc = "done"
    /\ Len(outcomes) = 2
    /\ outcomes[1].reason = "TeamParseFailed"
    /\ results[1]["Number of Employees"] =
          outcomes[1].company["Number of Employees"]
    /\ outcomes[2].reason = "Approved"
    /\ results[2]["Number of Employees"] #
          outcomes[2].company["Number of Employees"]
    /\ results[2]["Website URL"] = outcomes[2].company["Website URL"]

\* C26: a company is Approved only if the analyzer's employee_count is at
\* least 5, whatever integer the analyzer returns, negative ones included:
\* no count below 5 reaches the owner assignment.
C26_ApprovedOnlyFromFive ==
    team_analysis # Unset /\ team_analysis.employee_count < MinTeamSize
      => /\ RowDone
         /\ LastReason # "Approved"
         /\ owner \notin {"Matt", "Ellinor"}
         /\ LastRecord["Number of Employees"] >= 0

\* The call of scrape_company_pages under test has returned.
CompanyPagesReturned ==
    /\ frame # Unset
    /\ frame.fn = "scrape_company_pages"
    /\ frame.pc = "returned"

\* C27: scrape_company_pages never raises; error is set exactly when the
\* homepage could not be fetched or an exception occurred; a failed fetch
\* of the about, team or contact page leaves only that page absent and
\* error unset; and whenever error is set all four page fields are absent.
C27_ErrorMeansNoPages ==
    CompanyPagesReturned
      => LET failed == ~PageTruthy(frame.h) \/ frame.raises # "no" IN
         /\ frame.ret # Raise
         /\ frame.ret.error # None <=> failed
         /\ ~failed
              => /\ frame.ret.homepage = frame.h
                 /\ frame.ret.about_page = frame.a
                 /\ frame.ret.team_page = frame.t
                 /\ frame.ret.contact_page = frame.c
         /\ frame.ret.error # None
              => /\ frame.ret.homepage = NonePage
                 /\ frame.ret.about_page = NonePage
                 /\ frame.ret.team_page = NonePage
                 /\ frame.ret.contact_page = NonePage

\* A call of scrape_single_page is under test.
InSinglePage == frame # Unset /\ frame.fn = "scrape_single_page"

\* What C28 says of the fallback: at most two requests; a second one is
\* the unverified retry of the same URL after an SSL or connection error,
\* or the http:// retry after another request error on an https:// URL;
\* after an SSL or connection error no other URL is requested; the call
\* returns, and returns None when the fallback failed too.
FallbackRule ==
    LET rq == frame.requests
        u == frame.url
    IN /\ Len(rq) <= 2
       /\ Len(rq) >= 1 => rq[1].verify = TRUE
       /\ Len(rq) = 2
            => \/ /\ frame.first = "ssl_or_connection"
                  /\ rq[2] = [url |-> u, verify |-> FALSE]
               \/ /\ frame.first = "request_error"
                  /\ u[1] = "https://"
                  /\ rq[2].url = <<"http://">> \o Tail(u)
       /\ frame.first = "ssl_or_connection"
            => \A i \in 1..Len(rq) : rq[i].url = u
       /\ frame.pc = "returned"
            => /\ frame.ret \in {NonePage, Page("text")}
               /\ frame.second \notin {"none", "ok"} => frame.ret = NonePage
               /\ frame.first # "ok" /\ frame.second = "none"
                    => frame.ret = NonePage

====
